---- MODULE Spec2Model ----
(***************************************************************************)
(* A model of the repair-record tagging pipeline:                          *)
(*   - the taxonomy-driven tagger (axion_ray_task_1.py),                   *)
(*   - the caching tagger LLMTagger.extract_tags (llm_tagger.py),          *)
(*   - the column profiler and the cleaner (profiler.py, cleaner.py).      *)
(* Each part has its own specification over the shared variables; the      *)
(* variables of the other parts stay at their initial values.              *)
(*                                                                         *)
(* JSON and table cells are tagged records [t, v]: t names the Python      *)
(* type, v holds the value.  Numbers the code multiplies (the confidence)  *)
(* are exact rationals <<num, den>>: the factors 0.8 and 0.9 are applied   *)
(* as 8/10 and 9/10.                                                       *)
(***************************************************************************)
EXTENDS Integers, Sequences, FiniteSets, TLC

VARIABLES
    df_task,        \* axion_ray_task_1: the task table, one record per row
    idx,            \* axion_ray_task_1: the row the loop is at (1-based)
    llm_results,    \* axion_ray_task_1: what the service did for each row so far
    tpc,            \* axion_ray_task_1: "loop", "saved", "done", "crashed"
    low_confidence_rows, \* axion_ray_task_1: the rows the final report counts
    tagger_df_clean, \* LLMTagger.df_clean: column name -> the column's cells
    llm_cache,      \* LLMTagger.llm_cache: cache key -> stored result
    api_calls,      \* the service's side: prompt -> requests received for it
    tag_cols,       \* extract_tags: issues_col, components_col, actions_col
    cache_hits,     \* extract_tags: the rows _call_llm served from the cache
    et_pc,          \* extract_tags: "loop", "done", "raised"
    strict_strings, \* the installed pandas: is_string_dtype inspects the elements
    df_raw,         \* DataProfiler.df_raw: column name -> [dtype, cells]
    column_profiles, \* DataProfiler.column_profiles: column name -> profile dict
    df_clean,       \* Cleaner.df_clean: column name -> [dtype, cells]
    insights,       \* Cleaner.insights
    cl_pass,        \* the calls of clean_data made so far
    cl_pc,          \* "idle", "loaded", "profiled", "ready", "cleaned", "raised",
                    \* "tagged", "advanced"
    adv_idx,        \* extract_advanced_tags: the row the loop is at
    adv_pc          \* extract_advanced_tags: "idle", "start", "loop", "done", "raised"

tagger_vars == <<df_task, idx, llm_results, tpc, low_confidence_rows>>

llm_vars == <<tagger_df_clean, llm_cache, api_calls, tag_cols, cache_hits, et_pc>>

clean_vars == <<strict_strings, df_raw, column_profiles, df_clean, insights,
                cl_pass, cl_pc>>

adv_vars == <<adv_idx, adv_pc>>

vars == <<tagger_vars, llm_vars, clean_vars, adv_vars>>

-----------------------------------------------------------------------------
(* Bounds *)

\* Longest list the service returns for one axis (3 are kept, so 4 truncates).
MaxListLen == 4
\* Rows of a table whose every row meets the representative service outcomes.
NumRows == 2
\* Cells of a column of the profiled table.
NumCells == 5
\* Calls of clean_data on one Cleaner.
MaxPasses == 2

-----------------------------------------------------------------------------
(* JSON values *)

JStr(s) == [t |-> "str", v |-> s]
JNum(n, d) == [t |-> "num", v |-> <<n, d>>]
JList(items) == [t |-> "list", v |-> items]
JNull == [t |-> "null", v |-> 0]
\* A key the object does not have.
Absent == [t |-> "absent", v |-> 0]
\* A table cell never assigned (pd.NA).
NA == [t |-> "na", v |-> 0]

RECURSIVE GCD(_, _)
GCD(a, b) == IF b = 0 THEN a ELSE GCD(b, a % b)

Abs(n) == IF n < 0 THEN -n ELSE n

\* x * (n/d) on a rational, kept in lowest terms.
Times(x, n, d) ==
    LET num == x.v[1] * n
        den == x.v[2] * d
        g == GCD(Abs(num), den)
    IN  JNum(num \div g, den \div g)

\* Python truthiness of a JSON value (`val if val else ...`).
Truthy(x) ==
    CASE x.t = "str" -> x.v # ""
      [] x.t = "num" -> x.v[1] # 0
      [] x.t = "list" -> x.v # <<>>
      [] OTHER -> FALSE

SeqsUpTo(S, n) == UNION {[1..k -> S] : k \in 0..n}

-----------------------------------------------------------------------------
(* axion_ray_task_1.py: the taxonomy-driven tagger *)

NotMentioned == "Not Mentioned"

\* The four multi-label fields and the taxonomy axis of each, in the order of
\* the dict list_fields.
list_fields == <<
    [field_key |-> "symptom_condition", taxonomy_key |-> "Symptom Condition"],
    [field_key |-> "symptom_component", taxonomy_key |-> "Symptom Component"],
    [field_key |-> "fix_condition", taxonomy_key |-> "Fix Condition"],
    [field_key |-> "fix_component", taxonomy_key |-> "Fix Component"] >>

FieldKeys == {list_fields[i].field_key : i \in DOMAIN list_fields}

\* The Taxonomy sheet: one closed label list per axis.
taxonomy == [k \in {"Root Cause", "Symptom Condition", "Symptom Component",
                    "Fix Condition", "Fix Component"} |->
    CASE k = "Root Cause" -> {"Wear"}
      [] k = "Symptom Condition" -> {"Noise"}
      [] k = "Symptom Component" -> {"Steering wheel (main component)"}
      [] k = "Fix Condition" -> {"Replaced"}
      [] k = "Fix Component" -> {"Horn"}]

\* A slip: the label is looked up in every axis instead of its own.
InTaxonomy_AnyAxis(x, axis) ==
    x.t = "str" /\ x.v \in UNION {taxonomy[a] : a \in DOMAIN taxonomy}

\* `x in taxonomy[axis]`: list membership by ==; only a string equals a label.
InTaxonomy(x, axis) == x.t = "str" /\ x.v \in taxonomy[axis]

\* The dict both except clauses return.
default_result == [
    root_cause |-> JStr(NotMentioned),
    symptom_condition |-> JList(<<JStr(NotMentioned), JStr(""), JStr("")>>),
    symptom_component |-> JList(<<JStr(NotMentioned), JStr(""), JStr("")>>),
    fix_condition |-> JList(<<JStr(NotMentioned), JStr(""), JStr("")>>),
    fix_component |-> JList(<<JStr(NotMentioned), JStr(""), JStr("")>>),
    confidence |-> JNum(0, 1)]

\* What the external service can do for one request.  kind is
\*   "network_error"  requests.post raises,
\*   "http_error"     raise_for_status raises (non-2xx),
\*   "bad_envelope"   the body is not JSON or lacks choices[0].message.content,
\*   "not_json"       json.loads(content) raises,
\*   "parsed"         json.loads(content) returns `value`.
Failure(kind) == [kind |-> kind, value |-> JNull]
Parsed(value) == [kind |-> "parsed", value |-> value]

\* A parsed JSON object with the six expected keys, each possibly absent.
JObj(rc, scond, scomp, fcond, fcomp, conf) == [t |-> "obj", v |-> [
    root_cause |-> rc, symptom_condition |-> scond, symptom_component |-> scomp,
    fix_condition |-> fcond, fix_component |-> fcomp, confidence |-> conf]]

\* A slip: the except clause returns the default labels at confidence 1.0.
call_llm_api_FullConfidence(outcome) ==
    IF outcome.kind = "parsed" THEN outcome.value
    ELSE [t |-> "obj", v |-> [default_result EXCEPT !.confidence = JNum(1, 1)]]

\* call_llm_api: the parsed content, or the default dict on any exception.
call_llm_api(outcome) ==
    IF outcome.kind = "parsed" THEN outcome.value
    ELSE [t |-> "obj", v |-> default_result]

\* `validated["confidence"] *= f`: KeyError without the key, TypeError on a
\* value that is not a number.
CanScale(conf) == conf.t = "num"

\* A slip: a list with bad items costs 0.9 once, however many they are.
ValidateItems_OncePerList(items, axis, conf, acc) ==
    LET Ok(item) ==
            InTaxonomy(item, axis) \/ item = JStr(NotMentioned) \/ item = JStr("")
        any_bad == \E n \in DOMAIN items : ~Ok(items[n])
    IN  IF any_bad /\ ~CanScale(conf)
        THEN [raised |-> TRUE, items |-> acc, conf |-> conf]
        ELSE [raised |-> FALSE,
              items |-> acc \o [n \in DOMAIN items |->
                            IF Ok(items[n]) THEN items[n] ELSE JStr(NotMentioned)],
              conf |-> IF any_bad THEN Times(conf, 9, 10) ELSE conf]

\* The validation of one list field: [raised, items, conf].
RECURSIVE ValidateItems(_, _, _, _)
ValidateItems(items, axis, conf, acc) ==
    IF items = <<>> THEN [raised |-> FALSE, items |-> acc, conf |-> conf]
    ELSE LET item == Head(items) IN
         IF InTaxonomy(item, axis) \/ item = JStr(NotMentioned) \/ item = JStr("")
         THEN ValidateItems(Tail(items), axis, conf, Append(acc, item))
         ELSE IF ~CanScale(conf)
              THEN [raised |-> TRUE, items |-> acc, conf |-> conf]
              ELSE ValidateItems(Tail(items), axis, Times(conf, 9, 10),
                                 Append(acc, JStr(NotMentioned)))

\* A slip: the list is padded but not trimmed.
PadTrim_NoTrim(valid_list) ==
    valid_list \o
        [i \in 1..(IF Len(valid_list) < 3 THEN 3 - Len(valid_list) ELSE 0) |-> JStr("")]

\* `while len(valid_list) < 3: valid_list.append("")`, then valid_list[:3].
PadTrim(valid_list) ==
    LET padded == valid_list \o
            [i \in 1..(IF Len(valid_list) < 3 THEN 3 - Len(valid_list) ELSE 0)
                |-> JStr("")]
    IN  SubSeq(padded, 1, 3)

\* One pass of the loop over list_fields, from field i on.
RECURSIVE ValidateFields(_, _)
ValidateFields(validated, i) ==
    IF i > Len(list_fields) THEN [raised |-> FALSE, value |-> validated]
    ELSE LET field_key == list_fields[i].field_key
             cur == validated[field_key]
         IN  IF cur.t # "list"
             THEN ValidateFields(
                    [validated EXCEPT ![field_key] =
                        JList(<<JStr(NotMentioned), JStr(""), JStr("")>>)], i + 1)
             ELSE LET r == ValidateItems(cur.v, list_fields[i].taxonomy_key,
                                         validated.confidence, <<>>)
                  IN  IF r.raised THEN [raised |-> TRUE, value |-> validated]
                      ELSE ValidateFields(
                             [validated EXCEPT ![field_key] = JList(PadTrim(r.items)),
                                               !.confidence = r.conf], i + 1)

\* validate_llm_output: [raised, value].  A value that is not a dict has no
\* .copy()/.get(): AttributeError.
validate_llm_output(llm_output) ==
    IF llm_output.t # "obj" THEN [raised |-> TRUE, value |-> default_result]
    ELSE LET validated == llm_output.v
             rc == IF validated.root_cause = Absent THEN JNull
                   ELSE validated.root_cause
         IN  IF ~InTaxonomy(rc, "Root Cause") /\ rc # JStr(NotMentioned)
             THEN IF ~CanScale(validated.confidence)
                  THEN [raised |-> TRUE, value |-> validated]
                  ELSE ValidateFields(
                         [validated EXCEPT !.root_cause = JStr(NotMentioned),
                                           !.confidence = Times(@, 8, 10)], 1)
             ELSE ValidateFields(validated, 1)

\* process_row: the validated result, or the default dict on any exception.
process_row(outcome) ==
    LET r == validate_llm_output(call_llm_api(outcome))
    IN  IF r.raised THEN default_result ELSE r.value

\* The label columns of one axis, in the order of required_columns.
AxisColumns == [k \in FieldKeys |->
    CASE k = "symptom_condition" ->
            <<"Symptom Condition 1", "Symptom Condition 2", "Symptom Condition 3">>
      [] k = "symptom_component" ->
            <<"Symptom Component 1", "Symptom Component 2", "Symptom Component 3">>
      [] k = "fix_condition" ->
            <<"Fix Condition 1", "Fix Condition 2", "Fix Condition 3">>
      [] k = "fix_component" ->
            <<"Fix Component 1", "Fix Component 2", "Fix Component 3">>]

LabelColumns == {"Root Cause"} \cup
    UNION {{AxisColumns[k][i] : i \in 1..3} : k \in FieldKeys}

required_columns == LabelColumns \cup {"Confidence"}

\* The taxonomy axis a label column belongs to.
AxisOfColumn(col) ==
    IF col = "Root Cause" THEN "Root Cause"
    ELSE LET i == CHOOSE j \in DOMAIN list_fields :
                    \E n \in 1..3 : AxisColumns[list_fields[j].field_key][n] = col
         IN  list_fields[i].taxonomy_key

\* A row as the script leaves it before the loop: the label columns pd.NA,
\* Confidence 0.0.
BlankRow == [col \in required_columns |->
    IF col = "Confidence" THEN JNum(0, 1) ELSE NA]

\* Lines 214-230: the labels of `result` written to row `row`; an empty value
\* is written as "Not Mentioned".
WriteLabels(row, result) ==
    [col \in required_columns |->
        IF col = "Root Cause" THEN result.root_cause
        ELSE IF col = "Confidence" THEN row[col]
        ELSE LET k == CHOOSE f \in FieldKeys :
                        \E n \in 1..3 : AxisColumns[f][n] = col
                 n == CHOOSE m \in 1..3 : AxisColumns[k][m] = col
                 vals == SubSeq(result[k].v, 1, 3)
             IN  IF n > Len(vals) THEN row[col]
                 ELSE IF Truthy(vals[n]) THEN vals[n] ELSE JStr(NotMentioned)]

\* df_task["Confidence"] < 0.7 on one cell; comparing a str with a float
\* raises TypeError.
IsLow(conf) == conf.v[1] * 10 < 7 * conf.v[2]

-----------------------------------------------------------------------------
(* The responses the service is modelled to give *)

\* A label that is not in `axis`: an inexact spelling for Symptom Component,
\* a label of another axis elsewhere.
Bogus(axis) ==
    IF axis = "Symptom Component" THEN "Steering Wheel"
    ELSE "Steering wheel (main component)"

Valid(axis) == CHOOSE l \in taxonomy[axis] : TRUE

\* The item of `axis` a kind stands for.
ItemOf(kind, axis) ==
    CASE kind = "valid" -> JStr(Valid(axis))
      [] kind = "bogus" -> JStr(Bogus(axis))
      [] kind = "sentinel" -> JStr(NotMentioned)
      [] kind = "empty" -> JStr("")

ItemKinds == {"valid", "bogus", "sentinel", "empty"}

\* Every shape of one list field: missing, not a list, or a list of up to
\* MaxListLen items.
FieldShapes ==
    {<<"absent">>, <<"scalar">>} \cup
    {<<"list", s>> : s \in SeqsUpTo(ItemKinds, MaxListLen)}

FieldVal(shape, axis) ==
    CASE shape[1] = "absent" -> Absent
      [] shape[1] = "scalar" -> JStr("none")
      [] shape[1] = "list" ->
            JList([n \in DOMAIN shape[2] |-> ItemOf(shape[2][n], axis)])

\* Representative values of a list field: missing, one valid label, one item
\* that is not a string.
SmallVal(kind, axis) ==
    CASE kind = "absent" -> Absent
      [] kind = "valid" -> JList(<<JStr(Valid(axis))>>)
      [] kind = "bogus" -> JList(<<JNum(7, 1)>>)

SmallKinds == {"absent", "valid", "bogus"}

RootVals == {Absent, JStr("Wear"), JStr(NotMentioned), JStr("Noise")}

ConfVals == {Absent, JNum(19, 20), JNum(3, 2), JStr("high")}

FailureKinds == {"network_error", "http_error", "bad_envelope", "not_json"}

\* Field i takes the value fv; the other three fields are all missing, all
\* valid, or valid but for the field after i, which holds the non-string item.
ObjWith(i, fv, kind, rc, conf) ==
    LET f(j) == IF j = i THEN fv
                ELSE IF kind = "bogus" /\ j # (i % Len(list_fields)) + 1
                THEN SmallVal("valid", list_fields[j].taxonomy_key)
                ELSE SmallVal(kind, list_fields[j].taxonomy_key)
    IN  JObj(rc, f(1), f(2), f(3), f(4), conf)

\* The list fields that take every shape in turn.
RichFields == {n \in DOMAIN list_fields :
                list_fields[n].field_key \in {"symptom_condition", "symptom_component"}}

\* What the service may answer to the only row of a one-row table.
RichOutcomes ==
    {Failure(k) : k \in FailureKinds} \cup
    {Parsed(v) : v \in {JList(<<>>), JStr("ok"), JNull}} \cup
    {Parsed(ObjWith(i, FieldVal(shape, list_fields[i].taxonomy_key), kind, rc, conf)) :
        i \in RichFields, shape \in FieldShapes, kind \in SmallKinds,
        rc \in RootVals, conf \in ConfVals}

\* What the service may answer to each row of a longer table.
SmallOutcomes ==
    {Failure(k) : k \in FailureKinds} \cup
    {Parsed(JList(<<>>))} \cup
    {Parsed(ObjWith(1, SmallVal(kind, "Symptom Condition"), kind, rc, conf)) :
        kind \in {"valid", "bogus"}, rc \in {Absent, JStr("Wear")},
        conf \in {Absent, JNum(19, 20), JNum(3, 2)}}

Outcomes(n_rows) == IF n_rows = 1 THEN RichOutcomes ELSE SmallOutcomes

-----------------------------------------------------------------------------
(* The script of axion_ray_task_1.py *)

TaggerInit ==
    /\ df_task \in {[i \in 1..n |-> BlankRow] : n \in {1, NumRows}}
    /\ idx = 1
    /\ llm_results = <<>>
    /\ tpc = "loop"
    /\ low_confidence_rows = {}
    \* LLMTagger is not running
    /\ tagger_df_clean = <<>>
    /\ llm_cache = <<>>
    /\ api_calls = <<>>
    /\ tag_cols = <<>>
    /\ cache_hits = {}
    /\ et_pc = "idle"
    /\ strict_strings = FALSE
    /\ df_raw = <<>>
    /\ column_profiles = <<>>
    /\ df_clean = <<>>
    /\ insights = <<>>
    /\ cl_pass = 0
    /\ cl_pc = "idle"
    /\ adv_idx = 1
    /\ adv_pc = "idle"

\* One iteration of the row loop (lines 209-236): the service answers, the row
\* is processed and written back.  result["confidence"] raises KeyError when
\* the validated dict has no confidence; nothing catches it.
ProcessRowStep ==
    /\ tpc = "loop"
    /\ idx <= Len(df_task)
    /\ \E outcome \in Outcomes(Len(df_task)) :
        LET result == process_row(outcome)
            labelled == WriteLabels(df_task[idx], result)
        IN  /\ llm_results' = Append(llm_results, outcome)
            /\ IF result.confidence = Absent
               THEN /\ df_task' = [df_task EXCEPT ![idx] = labelled]
                    /\ tpc' = "crashed"
                    /\ idx' = idx
               ELSE /\ df_task' = [df_task EXCEPT ![idx] =
                            [labelled EXCEPT !["Confidence"] = result.confidence]]
                    /\ tpc' = "loop"
                    /\ idx' = idx + 1
    /\ UNCHANGED low_confidence_rows

\* Line 239: the loop is over, the table is written out.
SaveCsv ==
    /\ tpc = "loop"
    /\ idx > Len(df_task)
    /\ tpc' = "saved"
    /\ UNCHANGED <<df_task, idx, llm_results, low_confidence_rows>>

\* Lines 242-244: the rows with Confidence < 0.7.
Report ==
    /\ tpc = "saved"
    /\ IF \A i \in DOMAIN df_task : df_task[i]["Confidence"].t = "num"
       THEN /\ low_confidence_rows' =
                    {i \in DOMAIN df_task : IsLow(df_task[i]["Confidence"])}
            /\ tpc' = "done"
       ELSE /\ tpc' = "crashed"
            /\ UNCHANGED low_confidence_rows
    /\ UNCHANGED <<df_task, idx, llm_results>>


-----------------------------------------------------------------------------
(* llm_tagger.py: LLMTagger.extract_tags and its cache *)

\* The taxonomy embedded in extract_tags.
llm_taxonomy == [k \in {"issues", "components", "actions"} |->
    CASE k = "issues" -> {
            "Material problems (peeling, delaminating, bubbling, sticky)",
            "Stitching failures", "Heating malfunctions",
            "Super Cruise/driver assistance failures", "Noise (clicking, rubbing)",
            "Horn malfunctions", "Electrical faults/DTCs",
            "Loose/protruding components", "Broken internal circuits",
            "Off-center alignment"}
      [] k = "components" -> {
            "Steering wheel (main component)", "Heated module",
            "Super Cruise/driver assistance module", "Leather/material covering",
            "Trim/bezel", "Electrical harness/wiring", "Control buttons/switches",
            "Horn mechanism", "Airbag assembly", "BCM (Body Control Module)"}
      [] k = "actions" -> {
            "Part replacement", "Pre-authorization (PRA)",
            "Circuit testing/diagnosis", "Module programming", "DTC clearing",
            "Torquing/alignment", "Road testing",
            "Technical assistance consultation", "Disassembly/reassembly",
            "System verification"}]

TagKeys == <<"issues", "components", "actions">>

\* The output column of each result key.
TagColumn(key) ==
    CASE key = "issues" -> "ISSUES"
      [] key = "components" -> "COMPONENTS"
      [] key = "actions" -> "ACTIONS"

\* The verbatim texts of the modelled records, and str.strip() on each.
VerbatimTexts == {"", "wheel clicks", " wheel clicks ", "replaced wheel"}

Strip(text) == IF text = " wheel clicks " THEN "wheel clicks" ELSE text

\* The part of the prompt that varies with the row (lines 141-142).
Prompt(customer, correction) ==
    "Text 1 (Customer Verbatim): " \o customer \o
    "\nText 2 (Correction Verbatim): " \o correction

\* _generate_llm_cache_key: the hex MD5 digest of the prompt, written here as
\* a string that differs whenever the prompts differ (no two of the modelled
\* prompts collide under MD5).
_generate_llm_cache_key(prompt) == "md5(" \o prompt \o ")"

\* The dict the except clause of _call_llm builds.
empty_result == [issues |-> JList(<<>>), components |-> JList(<<>>),
                 actions |-> JList(<<>>)]

LObj(issues, components, actions) == [t |-> "obj", v |->
    [issues |-> issues, components |-> components, actions |-> actions]]

\* Lines 50-65 of _call_llm: [raised, result].  The loop that adds the missing
\* keys runs outside the try block: on a parsed value that is not a dict,
\* `key not in result` or `result[key] = []` raises TypeError.
ParseAndFill(outcome) ==
    IF outcome.kind # "parsed" THEN [raised |-> FALSE, result |-> empty_result]
    ELSE IF outcome.value.t # "obj" THEN [raised |-> TRUE, result |-> empty_result]
    ELSE [raised |-> FALSE,
          result |-> [k \in DOMAIN outcome.value.v |->
                        IF outcome.value.v[k] = Absent THEN JList(<<>>)
                        ELSE outcome.value.v[k]]]

\* A slip: a result is stored only when it holds something.
CacheStore_SkipEmpty(cache, cache_key, result) ==
    IF result = empty_result THEN cache
    ELSE [k \in DOMAIN cache \cup {cache_key} |->
            IF k = cache_key THEN result ELSE cache[k]]

\* Line 67: self.llm_cache[cache_key] = result.
CacheStore(cache, cache_key, result) ==
    [k \in DOMAIN cache \cup {cache_key} |->
        IF k = cache_key THEN result ELSE cache[k]]

RECURSIVE JoinStrings(_)
JoinStrings(items) ==
    IF items = <<>> THEN ""
    ELSE IF Len(items) = 1 THEN items[1].v
    ELSE items[1].v \o ", " \o JoinStrings(Tail(items))

\* `", ".join(v) if v else ""` on one value of the result: [raised, text].
\* join raises TypeError on a list item that is not a str and on a value that
\* is not iterable; a str is joined character by character.
JoinField(v) ==
    IF ~Truthy(v) THEN [raised |-> FALSE, text |-> ""]
    ELSE CASE v.t = "list" ->
                IF \A n \in DOMAIN v.v : v.v[n].t = "str"
                THEN [raised |-> FALSE, text |-> JoinStrings(v.v)]
                ELSE [raised |-> TRUE, text |-> ""]
           [] v.t = "str" /\ v.v = "ok" -> [raised |-> FALSE, text |-> "o, k"]
           [] OTHER -> [raised |-> TRUE, text |-> ""]

\* The values one key of the service's JSON object may hold.
LLMFieldVals(key) ==
    LET good == CHOOSE l \in llm_taxonomy[key] : TRUE
        other == CHOOSE l \in llm_taxonomy[key] : l # good
    IN  {Absent, JNull, JList(<<>>), JList(<<JStr(good), JStr(other)>>),
         JList(<<JStr("Steering Wheel")>>), JList(<<JNum(7, 1)>>),
         JStr("ok"), JNum(5, 1)}

GoodList(key) == JList(<<JStr(CHOOSE l \in llm_taxonomy[key] : TRUE)>>)

\* What the service may do for one request: fail, answer JSON that is not an
\* object, or answer an object in which at most one key departs from a
\* one-label list of its axis.
LLMOutcomes ==
    {Failure(k) : k \in {"network_error", "not_json"}} \cup
    {Parsed(v) : v \in {JList(<<>>), JStr("ok")}} \cup
    {Parsed(LObj(v, GoodList("components"), GoodList("actions"))) :
        v \in LLMFieldVals("issues")} \cup
    {Parsed(LObj(GoodList("issues"), v, GoodList("actions"))) :
        v \in LLMFieldVals("components")} \cup
    {Parsed(LObj(GoodList("issues"), GoodList("components"), v)) :
        v \in LLMFieldVals("actions")}

\* The records handed to LLMTagger: the two verbatim columns.
RecordTexts == {<<"", "">>, <<"wheel clicks", "">>, <<" wheel clicks ", "">>,
                <<"wheel clicks", "replaced wheel">>}

CleanTables ==
    {[c \in {"CUSTOMER_VERBATIM", "CORRECTION_VERBATIM"} |->
        [i \in 1..NumRows |->
            IF c = "CUSTOMER_VERBATIM" THEN rows[i][1] ELSE rows[i][2]]] :
     rows \in [1..NumRows -> RecordTexts]}

\* The prompt extract_tags builds for row i, "" when it skips the row.
RowPrompt(i) ==
    LET correction == Strip(tagger_df_clean["CORRECTION_VERBATIM"][i])
        customer == Strip(tagger_df_clean["CUSTOMER_VERBATIM"][i])
    IN  IF correction = "" /\ customer = "" THEN ""
        ELSE Prompt(customer, correction)

LLMInit ==
    /\ tagger_df_clean \in CleanTables
    /\ llm_cache = <<>>
    /\ api_calls = <<>>
    /\ tag_cols = [k \in {"issues", "components", "actions"} |-> <<>>]
    /\ cache_hits = {}
    /\ et_pc = "loop"
    \* the script of axion_ray_task_1.py is not running
    /\ df_task = <<>>
    /\ idx = 1
    /\ llm_results = <<>>
    /\ tpc = "idle"
    /\ low_confidence_rows = {}
    /\ strict_strings = FALSE
    /\ df_raw = <<>>
    /\ column_profiles = <<>>
    /\ df_clean = <<>>
    /\ insights = <<>>
    /\ cl_pass = 0
    /\ cl_pc = "idle"
    /\ adv_idx = 1
    /\ adv_pc = "idle"

\* The three appends of one iteration (lines 158-164), or the TypeError of a
\* join.
AppendTags(result) ==
    LET joined == [k \in DOMAIN result |-> JoinField(result[k])]
    IN  IF \E k \in DOMAIN joined : joined[k].raised
        THEN /\ et_pc' = "raised"
             /\ UNCHANGED tag_cols
        ELSE /\ et_pc' = "loop"
             /\ tag_cols' = [k \in DOMAIN tag_cols |->
                                Append(tag_cols[k], joined[k].text)]

\* One iteration over a record with no text (lines 79-83).
SkipEmptyRow ==
    /\ et_pc = "loop"
    /\ Len(tag_cols["issues"]) < NumRows
    /\ RowPrompt(Len(tag_cols["issues"]) + 1) = ""
    /\ tag_cols' = [k \in DOMAIN tag_cols |-> Append(tag_cols[k], "")]
    /\ UNCHANGED <<tagger_df_clean, llm_cache, api_calls, cache_hits, et_pc>>

\* One iteration whose prompt is in the cache (lines 29-31, 158-164).
TagRowFromCache ==
    /\ et_pc = "loop"
    /\ Len(tag_cols["issues"]) < NumRows
    /\ LET i == Len(tag_cols["issues"]) + 1
           prompt == RowPrompt(i)
           cache_key == _generate_llm_cache_key(prompt)
       IN  /\ prompt # ""
           /\ cache_key \in DOMAIN llm_cache
           /\ cache_hits' = cache_hits \cup {i}
           /\ AppendTags(llm_cache[cache_key])
    /\ UNCHANGED <<tagger_df_clean, llm_cache, api_calls>>

\* One iteration whose prompt is not in the cache: the service is called
\* (lines 33-68), then the tags are appended.
TagRowFromService ==
    /\ et_pc = "loop"
    /\ Len(tag_cols["issues"]) < NumRows
    /\ LET i == Len(tag_cols["issues"]) + 1
           prompt == RowPrompt(i)
           cache_key == _generate_llm_cache_key(prompt)
       IN  /\ prompt # ""
           /\ cache_key \notin DOMAIN llm_cache
           /\ api_calls' = [p \in DOMAIN api_calls \cup {prompt} |->
                                IF p \in DOMAIN api_calls /\ p # prompt
                                THEN api_calls[p]
                                ELSE IF p \in DOMAIN api_calls
                                     THEN api_calls[p] + 1 ELSE 1]
           /\ \E outcome \in LLMOutcomes :
                LET r == ParseAndFill(outcome)
                IN  IF r.raised
                    THEN /\ et_pc' = "raised"
                         /\ UNCHANGED <<llm_cache, tag_cols>>
                    ELSE /\ llm_cache' = CacheStore(llm_cache, cache_key, r.result)
                         /\ AppendTags(r.result)
    /\ UNCHANGED <<tagger_df_clean, cache_hits>>

\* Lines 167-169: the three lists become the columns ISSUES, COMPONENTS and
\* ACTIONS of self.df_clean.
AssignTagColumns ==
    /\ et_pc = "loop"
    /\ Len(tag_cols["issues"]) = NumRows
    /\ tagger_df_clean' =
        [c \in DOMAIN tagger_df_clean \cup {"ISSUES", "COMPONENTS", "ACTIONS"} |->
            CASE c = "ISSUES" -> tag_cols["issues"]
              [] c = "COMPONENTS" -> tag_cols["components"]
              [] c = "ACTIONS" -> tag_cols["actions"]
              [] OTHER -> tagger_df_clean[c]]
    /\ et_pc' = "done"
    /\ UNCHANGED <<llm_cache, api_calls, tag_cols, cache_hits>>

-----------------------------------------------------------------------------
(* profiler.py: DataProfiler.profile_columns *)

\* Table cells.  A number cell holds twice its value, so that the median of
\* an even count of integers is a cell too (v = 3 is 1.5); a Timestamp cell
\* holds twice its day number for the same reason.
NaN == [t |-> "nan", v |-> 0]
Num(x) == [t |-> "num", v |-> 2 * x]
Str(text) == [t |-> "str", v |-> text]
Ts(day) == [t |-> "ts", v |-> 2 * day]
Bool(b) == [t |-> "bool", v |-> b]

IsNa(cell) == cell.t = "nan"

\* `series.dropna()` on the cells.
DropNa(cells) == SelectSeq(cells, LAMBDA c : ~IsNa(c))

\* `series.isna().sum()`.
MissingCount(cells) == Len(cells) - Len(DropNa(cells))

\* `series.nunique()`: the distinct values that are not missing.
NUnique(cells) == Cardinality({cells[i] : i \in {j \in DOMAIN cells : ~IsNa(cells[j])}})

RECURSIVE Insert(_, _)
Insert(x, sorted) ==
    IF sorted = <<>> THEN <<x>>
    ELSE IF x <= Head(sorted) THEN <<x>> \o sorted
    ELSE <<Head(sorted)>> \o Insert(x, Tail(sorted))

RECURSIVE Sort(_)
Sort(xs) == IF xs = <<>> THEN <<>> ELSE Insert(Head(xs), Sort(Tail(xs)))

\* The v of the cells that are not missing, ascending.
SortedValues(cells) == Sort([i \in DOMAIN DropNa(cells) |-> DropNa(cells)[i].v])

\* Four times `series.quantile(k/4)` of the ascending values xs (linear
\* interpolation between the neighbours of position (n-1)*k/4); xs is not
\* empty.
Quantile4(xs, k) ==
    LET h == k * (Len(xs) - 1)
        lo == (h \div 4) + 1
        r == h % 4
    IN  IF r = 0 THEN 4 * xs[lo] ELSE 4 * xs[lo] + r * (xs[lo + 1] - xs[lo])

\* `series.median()` as a cell; NaN for no values.  The values are those of
\* the raw table (even v), so the mean of two neighbours is a whole v.
Median(cells, t) ==
    LET xs == SortedValues(cells)
    IN  IF xs = <<>> THEN NaN
        ELSE [t |-> t, v |-> Quantile4(xs, 2) \div 4]

\* The IQR mask on number cells: (col < Q1 - 1.5*IQR) | (col > Q3 + 1.5*IQR),
\* compared at eight times the values.  Comparisons with NaN are False.
OutlierMask(cells) ==
    LET xs == SortedValues(cells)
    IN  [i \in DOMAIN cells |->
            IF xs = <<>> \/ IsNa(cells[i]) THEN FALSE
            ELSE LET Q1 == Quantile4(xs, 1)
                     Q3 == Quantile4(xs, 3)
                     IQR == Q3 - Q1
                 IN  \/ 8 * cells[i].v < 2 * Q1 - 3 * IQR
                     \/ 8 * cells[i].v > 2 * Q3 + 3 * IQR]

CountTrue(mask) == Cardinality({i \in DOMAIN mask : mask[i]})

\* The strings of the modelled object columns.
LongText == "steering wheel makes a clicking noise"

NumericStrings == {"1", "2", "100"}
DateStrings == {"2024-01-05", "2024-01-07", "2024-03-01"}
WordStrings == {"ab", "Ab ", LongText}

\* pd.to_numeric on one string.
ToNumeric(text) ==
    CASE text = "1" -> Num(1)
      [] text = "2" -> Num(2)
      [] text = "100" -> Num(100)

\* pd.to_datetime on one string: the day number within 2024.
ToDatetime(text) ==
    CASE text = "2024-01-05" -> Ts(5)
      [] text = "2024-01-07" -> Ts(7)
      [] text = "2024-03-01" -> Ts(61)

\* str.strip().str.lower() and str.strip().str.title() on the word strings.
StripLower(text) == IF text = "Ab " THEN "ab" ELSE text

StripTitle(text) ==
    CASE text \in {"ab", "Ab ", "Ab"} -> "Ab"
      [] text \in {LongText, "Steering Wheel Makes A Clicking Noise"} ->
            "Steering Wheel Makes A Clicking Noise"
      [] OTHER -> text

\* The position of a string in Python's ordering of the word strings.
StrRank(text) ==
    CASE text = "Ab" -> 1
      [] text = "Ab " -> 2
      [] text = "Steering Wheel Makes A Clicking Noise" -> 3
      [] text = "ab" -> 4
      [] text = LongText -> 5
      [] OTHER -> 6

\* pd.to_numeric(col.dropna()) succeeds: every value is a number or a string
\* that reads as one.
CoercesToNumeric(cells) ==
    \A i \in DOMAIN cells :
        \/ IsNa(cells[i])
        \/ cells[i].t = "num"
        \/ cells[i].t = "str" /\ cells[i].v \in NumericStrings

\* The cells of pd.to_numeric(col.dropna()).
NumericData(cells) ==
    [i \in DOMAIN DropNa(cells) |->
        IF DropNa(cells)[i].t = "str" THEN ToNumeric(DropNa(cells)[i].v)
        ELSE DropNa(cells)[i]]

\* pd.to_datetime(col.dropna(), errors="raise") succeeds.
ParsesAsDates(cells) ==
    \A i \in DOMAIN cells :
        \/ IsNa(cells[i])
        \/ cells[i].t = "ts"
        \/ cells[i].t = "str" /\ cells[i].v \in DateStrings

\* pd.api.types.is_numeric_dtype.
is_numeric_dtype(col) == col.dtype \in {"int64", "float64"}

\* pd.api.types.is_string_dtype on a column: before pandas 2.0 every object
\* column qualifies; from 2.0 on only one whose every element is a str.
is_string_dtype(col, strict) ==
    /\ col.dtype = "object"
    /\ strict => (col.cells # <<>> /\ \A i \in DOMAIN col.cells : col.cells[i].t = "str")

is_datetime64_any_dtype(col) == col.dtype = "datetime64[ns]"

\* col_data.str.len().mean() > 20, on the strings that are not missing.
RECURSIVE SumLen(_)
SumLen(cells) ==
    IF cells = <<>> THEN 0 ELSE Len(Head(cells).v) + SumLen(Tail(cells))

MeanLenAbove20(cells) ==
    DropNa(cells) # <<>> /\ SumLen(DropNa(cells)) > 20 * Len(DropNa(cells))

\* The keys every profile starts with (lines 33-46; dtype, the percentages
\* and the random sample_values are left out).
BaseProfile(name, col) ==
    [k \in {"name", "missing_count", "unique_count", "potential_issues"} |->
        CASE k = "name" -> name
          [] k = "missing_count" -> MissingCount(col.cells)
          [] k = "unique_count" -> NUnique(col.cells)
          [] k = "potential_issues" -> {}]

\* dict.update / item assignment: the keys of `more` added to `profile`.
With(profile, more) ==
    [k \in DOMAIN profile \cup DOMAIN more |->
        IF k \in DOMAIN more THEN more[k] ELSE profile[k]]

\* The numerical statistics (lines 49-71 and 78-103) over the number cells.
NumericalStats(profile, cells) ==
    LET outlier_count == CountTrue(OutlierMask(cells))
        \* outlier_percentage > 5 with outlier_percentage = count / len * 100
        high == cells # <<>> /\ outlier_count * 100 > 5 * Len(cells)
    IN  With(profile,
            [k \in {"column_type", "median", "outlier_count", "potential_issues"} |->
                CASE k = "column_type" -> "numerical"
                  [] k = "median" -> Median(cells, "num")
                  [] k = "outlier_count" -> outlier_count
                  [] k = "potential_issues" ->
                        IF high THEN {"High outlier percentage"} ELSE {}])

\* Lines 152-158.
WithPrimaryKeyFlag(profile, col) ==
    With(profile, [k \in {"potential_primary_key"} |->
        profile["unique_count"] = Len(col.cells) /\ profile["missing_count"] = 0])

\* The body of profile_columns' loop for one column.
ProfileOf(name, col, strict) ==
    LET profile == BaseProfile(name, col)
    IN  IF is_numeric_dtype(col)
        THEN WithPrimaryKeyFlag(NumericalStats(profile, col.cells), col)
        ELSE IF col.dtype = "object" /\ CoercesToNumeric(col.cells)
        THEN \* line 107: `continue` leaves the loop body before line 152
             NumericalStats(profile, NumericData(col.cells))
        ELSE IF is_string_dtype(col, strict)
        THEN IF ParsesAsDates(col.cells)
             THEN WithPrimaryKeyFlag(
                    With(profile, [k \in {"column_type"} |-> "date"]), col)
             ELSE IF MeanLenAbove20(col.cells)
             THEN WithPrimaryKeyFlag(
                    With(profile, [k \in {"column_type"} |-> "text"]), col)
             ELSE LET raw == {c.v : c \in {col.cells[i] : i \in
                                    {j \in DOMAIN col.cells : ~IsNa(col.cells[j])}}}
                      clean == {StripLower(x) : x \in raw}
                  IN  WithPrimaryKeyFlag(
                        With(profile,
                            [k \in {"column_type", "potential_issues"} |->
                                IF k = "column_type" THEN "categorical"
                                ELSE IF Cardinality(clean) < Cardinality(raw)
                                THEN {"Inconsistent capitalization or spacing"}
                                ELSE {}]), col)
        ELSE IF is_datetime64_any_dtype(col)
        THEN WithPrimaryKeyFlag(
                With(profile, [k \in {"column_type"} |-> "date"]), col)
        ELSE WithPrimaryKeyFlag(profile, col)

-----------------------------------------------------------------------------
(* cleaner.py: Cleaner.clean_data *)

\* `series.fillna(value)`: a missing value as the fill value leaves the
\* column as it is.
FillNa(cells, value) ==
    [i \in DOMAIN cells |-> IF IsNa(cells[i]) THEN value ELSE cells[i]]

\* `series.isna()` as a boolean column.
IsNaColumn(cells) ==
    [dtype |-> "bool", cells |-> [i \in DOMAIN cells |-> Bool(IsNa(cells[i]))]]

\* pd.to_datetime on the cells of a column whose values parse as dates.
ToDatetimeCells(cells) ==
    [i \in DOMAIN cells |->
        IF cells[i].t = "str" THEN ToDatetime(cells[i].v) ELSE cells[i]]

\* `series.mode().iloc[0]`: the most frequent value that is not missing, the
\* smallest of them on a tie.
Mode(cells) ==
    LET present == {i \in DOMAIN cells : ~IsNa(cells[i])}
        Count(c) == Cardinality({i \in present : cells[i] = c})
        values == {cells[i] : i \in present}
    IN  CHOOSE c \in values :
            \A d \in values :
                \/ Count(c) > Count(d)
                \/ Count(c) = Count(d) /\ StrRank(c.v) <= StrRank(d.v)

\* One entry of Cleaner.insights: the message's kind, its column and the
\* value it prints.
Insight(kind, col, value) == [kind |-> kind, col |-> col, value |-> value]

Count(n) == [t |-> "count", v |-> n]

\* The state the loop of clean_data carries: the table, the insights and
\* whether an exception has left the method.
CleanState(df, ins, raised) == [df |-> df, insights |-> ins, raised |-> raised]

SetColumn(st, name, column) ==
    [st EXCEPT !.df = With(st.df, [k \in {name} |-> column])]

AddInsight(st, insight) ==
    [st EXCEPT !.insights = Append(st.insights, insight)]

\* A slip: the date branch fills the column first and flags it afterwards.
Impute_FlagAfterFill(st, col, profile) ==
    LET column == st.df[col]
        type == profile["column_type"]
        Filled(value, how) ==
            AddInsight(
                SetColumn(st, col, [column EXCEPT !.cells = FillNa(column.cells, value)]),
                Insight(how, col, value))
    IN  IF ~(profile["missing_count"] > 0) THEN st
        ELSE IF type = "numerical" THEN Filled(profile["median"], "median")
        ELSE IF type = "categorical"
        THEN IF DropNa(column.cells) = <<>>
             THEN [st EXCEPT !.raised = TRUE]
             ELSE Filled(Mode(column.cells), "mode")
        ELSE IF type = "text" THEN Filled(Str(""), "empty string")
        ELSE IF type = "date"
        THEN LET median_date == Median(ToDatetimeCells(column.cells), "ts")
                 filled == FillNa(column.cells, median_date)
             IN  AddInsight(
                    SetColumn(
                        SetColumn(st, col, [column EXCEPT !.cells = filled]),
                        col \o "_MISSING", IsNaColumn(filled)),
                    Insight("median date", col, median_date))
        ELSE st

\* Lines 25-52.
Impute(st, col, profile) ==
    LET column == st.df[col]
        type == profile["column_type"]
        Filled(value, how) ==
            AddInsight(
                SetColumn(st, col, [column EXCEPT !.cells = FillNa(column.cells, value)]),
                Insight(how, col, value))
    IN  IF ~(profile["missing_count"] > 0) THEN st
        ELSE IF type = "numerical" THEN Filled(profile["median"], "median")
        ELSE IF type = "categorical"
        THEN IF DropNa(column.cells) = <<>>
             THEN [st EXCEPT !.raised = TRUE]       \* .iloc[0] of an empty mode()
             ELSE Filled(Mode(column.cells), "mode")
        ELSE IF type = "text" THEN Filled(Str(""), "empty string")
        ELSE IF type = "date"
        THEN LET flagged == SetColumn(st, col \o "_MISSING", IsNaColumn(column.cells))
                 median_date == Median(ToDatetimeCells(column.cells), "ts")
             IN  AddInsight(
                    SetColumn(flagged, col,
                        [column EXCEPT !.cells = FillNa(column.cells, median_date)]),
                    Insight("median date", col, median_date))
        ELSE st

\* Lines 54-62, reached unless an exception has left the method.  astype(str)
\* turns a missing value into the text "nan".
Normalize(st, col, profile) ==
    LET column == st.df[col]
    IN  IF st.raised THEN st
        ELSE IF /\ profile["column_type"] = "categorical"
                /\ "Inconsistent capitalization or spacing" \in profile["potential_issues"]
        THEN AddInsight(
                SetColumn(st, col,
                    [dtype |-> "object",
                     cells |-> [i \in DOMAIN column.cells |->
                        IF IsNa(column.cells[i]) THEN Str("Nan")
                        ELSE Str(StripTitle(column.cells[i].v))]]),
                Insight("standardized", col, Count(0)))
        ELSE st

\* Lines 64-68, reached unless an exception has left the method.
CoerceDates(st, col, profile) ==
    LET column == st.df[col]
    IN  IF st.raised \/ profile["column_type"] # "date" THEN st
        ELSE IF ParsesAsDates(column.cells)
        THEN SetColumn(st, col,
                [dtype |-> "datetime64[ns]", cells |-> ToDatetimeCells(column.cells)])
        ELSE AddInsight(st, Insight("failed to convert", col, Count(0)))

\* The mask of lines 74-79 over the column as it is now.
OutlierFlags(st, col) == OutlierMask(st.df[col].cells)

\* Lines 70-83, reached unless an exception has left the method.  The
\* quantile of an object column that holds strings raises TypeError.
FlagOutliers(st, col, profile) ==
    LET column == st.df[col]
        outlier_count ==
            IF "outlier_count" \in DOMAIN profile THEN profile["outlier_count"] ELSE 0
    IN  IF st.raised THEN st
        ELSE IF ~(profile["column_type"] = "numerical" /\ outlier_count > 0) THEN st
        ELSE IF column.dtype = "object" THEN [st EXCEPT !.raised = TRUE]
        ELSE LET outlier_mask == OutlierFlags(st, col)
             IN  AddInsight(
                    SetColumn(st, col \o "_OUTLIER",
                        [dtype |-> "bool",
                         cells |-> [i \in DOMAIN outlier_mask |-> Bool(outlier_mask[i])]]),
                    Insight("flagged", col, Count(CountTrue(outlier_mask))))

\* A slip: a profile without column_type is passed over without a notice.
CleanColumn_NoNotice(st, col, profile) ==
    IF "column_type" \notin DOMAIN profile THEN st
    ELSE FlagOutliers(
            CoerceDates(
                Normalize(
                    Impute(st, col, profile), col, profile), col, profile), col, profile)

\* The body of clean_data's loop for one profile.
CleanColumn(st, col, profile) ==
    IF "column_type" \notin DOMAIN profile
    THEN AddInsight(st, Insight("skipping", col, Count(0)))
    ELSE FlagOutliers(
            CoerceDates(
                Normalize(
                    Impute(st, col, profile), col, profile), col, profile), col, profile)

\* The columns of a loaded table, in the table's order.
ColumnOrder(table) == IF "B" \in DOMAIN table THEN <<"A", "B">> ELSE <<"A">>

\* clean_data's loop over column_profiles.items().
RECURSIVE CleanLoop(_, _, _)
CleanLoop(st, names, profiles) ==
    IF names = <<>> \/ st.raised THEN st
    ELSE CleanLoop(CleanColumn(st, Head(names), profiles[Head(names)]),
                   Tail(names), profiles)

\* The cells the columns of the loaded tables are made of.
FloatCells == {NaN, Num(1), Num(2), Num(4), Num(100)}
NumericStringCells == {NaN} \cup {Str(x) : x \in NumericStrings}
DateStringCells == {NaN} \cup {Str(x) : x \in DateStrings}
WordCells == {NaN} \cup {Str(x) : x \in WordStrings}
TimestampCells == {NaN, Ts(5), Ts(7), Ts(61)}
TimedeltaCells == {NaN, [t |-> "td", v |-> 2]}

ColumnsOf(dtype, alphabet) ==
    {[dtype |-> dtype, cells |-> cells] : cells \in [1..NumCells -> alphabet]}

\* Columns as read_excel and earlier stages make them: all floats, all
\* numeric strings, all date strings, all words and sentences, all
\* Timestamps, all Timedeltas, each with any of its values missing.
Columns ==
    ColumnsOf("float64", FloatCells)
        \cup ColumnsOf("object", NumericStringCells)
        \cup ColumnsOf("object", DateStringCells)
        \cup ColumnsOf("object", WordCells)
        \cup ColumnsOf("datetime64[ns]", TimestampCells)
        \cup ColumnsOf("timedelta64[ns]", TimedeltaCells)

\* The columns of the two-column tables: at most the first cell differs from
\* the others.
PairColumns ==
    {c \in ColumnsOf("float64", {NaN, Num(1), Num(100)})
            \cup ColumnsOf("object", {NaN, Str("ab"), Str("Ab ")})
            \cup ColumnsOf("timedelta64[ns]", TimedeltaCells) :
        \A i \in 2..NumCells : c.cells[i] = c.cells[2]}

Tables ==
    {[k \in {"A"} |-> c] : c \in Columns}
        \cup {[k \in {"A", "B"} |-> IF k = "A" THEN a ELSE b] :
                a \in PairColumns, b \in PairColumns}

\* A table is loaded; nothing is profiled or cleaned yet.
CleanInit ==
    /\ df_raw \in Tables
    /\ strict_strings \in BOOLEAN
    /\ column_profiles = <<>>
    /\ df_clean = <<>>
    /\ insights = <<>>
    /\ cl_pass = 0
    /\ cl_pc = "loaded"
    /\ df_task = <<>>
    /\ idx = 1
    /\ llm_results = <<>>
    /\ tpc = "idle"
    /\ low_confidence_rows = {}
    /\ tagger_df_clean = <<>>
    /\ llm_cache = <<>>
    /\ api_calls = <<>>
    /\ tag_cols = <<>>
    /\ cache_hits = {}
    /\ et_pc = "idle"
    /\ adv_idx = 1
    /\ adv_pc = "idle"

\* DataProfiler.profile_columns.
ProfileColumns ==
    /\ cl_pc = "loaded"
    /\ column_profiles' =
            [name \in DOMAIN df_raw |-> ProfileOf(name, df_raw[name], strict_strings)]
    /\ cl_pc' = "profiled"
    /\ UNCHANGED <<strict_strings, df_raw, df_clean, insights, cl_pass>>

\* Cleaner.__init__.
NewCleaner ==
    /\ cl_pc = "profiled"
    /\ df_clean' = df_raw
    /\ insights' = <<>>
    /\ cl_pc' = "ready"
    /\ UNCHANGED <<strict_strings, df_raw, column_profiles, cl_pass>>

\* Cleaner.clean_data, the first call or a later one on the same Cleaner.
CleanData ==
    /\ cl_pc \in {"ready", "cleaned"}
    /\ cl_pass < MaxPasses
    /\ LET st == CleanLoop(CleanState(df_clean, insights, FALSE),
                           ColumnOrder(df_raw), column_profiles)
       IN  /\ df_clean' = st.df
           /\ insights' = st.insights
           /\ cl_pc' = IF st.raised THEN "raised" ELSE "cleaned"
    /\ cl_pass' = cl_pass + 1
    /\ UNCHANGED <<strict_strings, df_raw, column_profiles>>

-----------------------------------------------------------------------------
(* llm_tagger.py: LLMTagger.extract_advanced_tags *)

\* A whole number in a cell of the tagged table.
Number(n) == [t |-> "int", v |-> n]

\* The texts of the three text columns.
CorrectionTexts ==
    {"", "Replaced steering wheel module", "Replaced horn",
     "Checked and cleaned connector", "Heated wheel trim peeling",
     "DTC scan, programming", "Opened TAC case, test circuit", "Wheel cover loose"}

CustomerTexts == {"", "SAFETY recall: airbag light on", "Clicking noise, horn not working"}

LaborTexts == {"", "Steering wheel replacement"}

\* The keywords of extract_advanced_tags that `kw in text.lower()` finds in
\* one text; no keyword straddles two of the texts above.
KeywordsIn(text) ==
    CASE text = "Replaced steering wheel module" -> {"module", "replace", "replaced", "wheel"}
      [] text = "Replaced horn" -> {"horn", "replace", "replaced"}
      [] text = "Checked and cleaned connector" -> {"checked", "cleaned"}
      [] text = "Heated wheel trim peeling" -> {"heated", "peeling", "trim", "wheel"}
      [] text = "DTC scan, programming" -> {"dtc", "prog", "programming", "scan"}
      [] text = "Opened TAC case, test circuit" -> {"circuit", "tac case", "test"}
      [] text = "Wheel cover loose" -> {"cover", "loose", "wheel"}
      [] text = "SAFETY recall: airbag light on" -> {"airbag", "light", "safety"}
      [] text = "Clicking noise, horn not working" ->
            {"clicking", "horn", "noise", "not working"}
      [] text = "Steering wheel replacement" -> {"replace", "wheel"}
      [] OTHER -> {}

\* row.get(col, default): the default only when the table has no such column.
RowGet(table, i, col, default) ==
    IF col \in DOMAIN table THEN table[col][i] ELSE default

\* str(value).strip() of a text cell; a missing value reads "nan".
TextOf(cell) == IF cell.t = "str" THEN cell.v ELSE "nan"

\* "".join(c for c in text if c.isdigit() or c == "."): the digits and dots
\* of the strings of the numeric columns.
DigitsOf(text) ==
    CASE text = "5000 km" -> "5000"
      [] text = "$1500" -> "1500"
      [] text = "12.345.6" -> "12.345.6"
      [] text = "n/a" -> ""
      [] text = "3 months" -> "3"

\* float(digits or 0): [raised, value]; two dots are a ValueError.
FloatOf(digits) ==
    CASE digits = "" -> [raised |-> FALSE, value |-> Number(0)]
      [] digits = "5000" -> [raised |-> FALSE, value |-> Number(5000)]
      [] digits = "1500" -> [raised |-> FALSE, value |-> Number(1500)]
      [] digits = "3" -> [raised |-> FALSE, value |-> Number(3)]
      [] digits = "12.345.6" -> [raised |-> TRUE, value |-> NaN]

\* Lines 194-205 for one of KM, TOTALCOST, LBRCOST.
CoerceIfStr(cell) ==
    IF cell.t = "str" THEN FloatOf(DigitsOf(cell.v))
    ELSE [raised |-> FALSE, value |-> cell]

\* Lines 207-212 on two numbers (either may be NaN).
PartsCost(total_cost, labor_cost) ==
    IF total_cost.t = "int" /\ labor_cost.t = "int"
    THEN Number(total_cost.v - labor_cost.v)
    ELSE NaN

\* x > n and x < n on a number; comparisons with NaN are False.
Above(x, n) == x.t = "int" /\ x.v > n
Below(x, n) == x.t = "int" /\ x.v < n

\* Lines 216-229.
Complexity(parts_cost, text) ==
    IF \/ Above(parts_cost, 1000)
       \/ "replaced" \in text /\ ("module" \in text \/ "programming" \in text)
    THEN "High"
    ELSE IF Above(parts_cost, 300) \/ "replaced" \in text THEN "Medium"
    ELSE IF {"adjusted", "cleaned", "checked"} \cap text # {} THEN "Low"
    ELSE "Medium"

\* Lines 233-246.
VehicleSystem(text) ==
    IF "super cruise" \in text \/ "driver assist" \in text THEN "Driver Assistance"
    ELSE IF "heated" \in text /\ "wheel" \in text THEN "Comfort System"
    ELSE IF "horn" \in text THEN "Electrical System"
    ELSE IF "wheel" \in text /\ {"trim", "cover", "plastic"} \cap text # {}
    THEN "Interior Trim"
    ELSE IF "wheel" \in text THEN "Steering System"
    ELSE "Other"

\* Lines 250-266.
FailureMode(text) ==
    IF {"coming apart", "peeling", "fraying", "bubbling"} \cap text # {}
    THEN "Material Degradation"
    ELSE IF {"loose", "protruding"} \cap text # {} THEN "Assembly Issue"
    ELSE IF {"inop", "not working", "malfunction"} \cap text # {}
    THEN "Functional Failure"
    ELSE IF {"dtc", "code", "light", "message"} \cap text # {}
    THEN "Electronic/Software Issue"
    ELSE IF {"noise", "clicking", "rubbing"} \cap text # {} THEN "NVH Issue"
    ELSE "Unknown"

\* A slip: the text is looked at before the age.
Urgency_TextFirst(repair_age, kilometers, text) ==
    IF "safety" \in text \/ "airbag" \in text
    THEN [raised |-> FALSE, label |-> "Safety Critical"]
    ELSE IF repair_age = Number(0) THEN [raised |-> FALSE, label |-> "Immediate"]
    ELSE IF repair_age.t = "str" THEN [raised |-> TRUE, label |-> ""]
    ELSE IF kilometers # Number(0) /\ Below(kilometers, 20000) /\ Below(repair_age, 6)
    THEN [raised |-> FALSE, label |-> "Early Failure"]
    ELSE IF Above(repair_age, 24) THEN [raised |-> FALSE, label |-> "Long-term Issue"]
    ELSE [raised |-> FALSE, label |-> "Normal"]

\* Lines 270-279: [raised, label].  The age is compared as it was read: a
\* string is not equal to 0, and `<` or `>` between a string and a number is
\* a TypeError.  `kilometers and ...` stops at a zero.
Urgency(repair_age, kilometers, text) ==
    IF repair_age = Number(0) THEN [raised |-> FALSE, label |-> "Immediate"]
    ELSE IF "safety" \in text \/ "airbag" \in text
    THEN [raised |-> FALSE, label |-> "Safety Critical"]
    ELSE IF kilometers # Number(0) /\ Below(kilometers, 20000) /\ repair_age.t = "str"
    THEN [raised |-> TRUE, label |-> ""]
    ELSE IF kilometers # Number(0) /\ Below(kilometers, 20000) /\ Below(repair_age, 6)
    THEN [raised |-> FALSE, label |-> "Early Failure"]
    ELSE IF repair_age.t = "str" THEN [raised |-> TRUE, label |-> ""]
    ELSE IF Above(repair_age, 24) THEN [raised |-> FALSE, label |-> "Long-term Issue"]
    ELSE [raised |-> FALSE, label |-> "Normal"]

\* Lines 283-296.
DiagnosticMethod(text) ==
    IF "tac case" \in text \/ "technical assistance" \in text
    THEN "Technical Assistance"
    ELSE IF "dtc" \in text \/ "scan" \in text THEN "Diagnostic Scan"
    ELSE IF "test" \in text /\ "circuit" \in text THEN "Circuit Testing"
    ELSE IF "prog" \in text THEN "Software Reprogramming"
    ELSE IF "pra" \in text THEN "Pre-authorization Required"
    ELSE IF "replace" \in text THEN "Direct Replacement"
    ELSE "Visual Inspection"

AdvancedColumns ==
    <<"REPAIR_COMPLEXITY", "VEHICLE_SYSTEM", "FAILURE_MODE", "REPAIR_URGENCY",
      "DIAGNOSTIC_METHOD">>

\* self.df_clean.at[i, col] = label.
SetAt(table, i, col, label) == [table EXCEPT ![col][i] = Str(label)]

\* Lines 177-181: the five columns, "" in every row of an n-row table.
WithAdvancedColumns(table, n) ==
    [c \in DOMAIN table \cup {AdvancedColumns[k] : k \in DOMAIN AdvancedColumns} |->
        IF c \in {AdvancedColumns[k] : k \in DOMAIN AdvancedColumns}
        THEN [i \in 1..n |-> Str("")]
        ELSE table[c]]

\* The body of the loop of lines 183-297 for row i: [raised, table].  The
\* three labels before the urgency are written before it can raise.
AdvancedRow(table, i) ==
    LET correction == TextOf(RowGet(table, i, "CORRECTION_VERBATIM", Str("")))
        customer == TextOf(RowGet(table, i, "CUSTOMER_VERBATIM", Str("")))
        repair_age == RowGet(table, i, "REPAIR_AGE", Number(0))
        kilometers == CoerceIfStr(RowGet(table, i, "KM", Number(0)))
        total_cost == CoerceIfStr(RowGet(table, i, "TOTALCOST", Number(0)))
        labor_cost == CoerceIfStr(RowGet(table, i, "LBRCOST", Number(0)))
        global_labor_desc ==
            TextOf(RowGet(table, i, "GLOBAL_LABOR_CODE_DESCRIPTION", Str("")))
        parts_cost == PartsCost(total_cost.value, labor_cost.value)
        combined_text ==
            KeywordsIn(correction) \cup KeywordsIn(customer)
                \cup KeywordsIn(global_labor_desc)
        urgency == Urgency(repair_age, kilometers.value, combined_text)
        first3 ==
            SetAt(SetAt(SetAt(table,
                i, "REPAIR_COMPLEXITY", Complexity(parts_cost, combined_text)),
                i, "VEHICLE_SYSTEM", VehicleSystem(combined_text)),
                i, "FAILURE_MODE", FailureMode(combined_text))
    IN  IF kilometers.raised \/ total_cost.raised \/ labor_cost.raised
        THEN [raised |-> TRUE, table |-> table]
        ELSE IF urgency.raised THEN [raised |-> TRUE, table |-> first3]
        ELSE [raised |-> FALSE,
              table |-> SetAt(SetAt(first3,
                            i, "REPAIR_URGENCY", urgency.label),
                            i, "DIAGNOSTIC_METHOD", DiagnosticMethod(combined_text))]

\* len(self.df_clean).
RowCount(table) == Len(table[CHOOSE c \in DOMAIN table : TRUE])

\* The rows of the one-row tables: every text with every reading of the
\* numeric columns (a number, a missing value, a string).
RichRows ==
    [CORRECTION_VERBATIM : {Str(x) : x \in CorrectionTexts} \cup {NaN},
     CUSTOMER_VERBATIM : {Str(x) : x \in CustomerTexts},
     GLOBAL_LABOR_CODE_DESCRIPTION : {Str(x) : x \in LaborTexts},
     REPAIR_AGE : {Number(0), Number(3), Number(12), Number(30), NaN, Str("3 months")},
     KM : {Number(0), Number(5000), Number(50000), NaN,
           Str("5000 km"), Str("12.345.6"), Str("n/a")},
     TOTALCOST : {Number(100), Number(500), Number(2000), NaN, Str("$1500")},
     LBRCOST : {Number(0), Number(100), NaN, Str("n/a")}]

\* The rows of the longer tables.
PlainRows ==
    [CORRECTION_VERBATIM : {Str("Replaced horn"), Str("DTC scan, programming")},
     CUSTOMER_VERBATIM : {Str("SAFETY recall: airbag light on")},
     GLOBAL_LABOR_CODE_DESCRIPTION : {Str("")},
     REPAIR_AGE : {Number(0), Number(30), Str("3 months")},
     KM : {Number(5000), Str("12.345.6")},
     TOTALCOST : {Number(2000)},
     LBRCOST : {Number(100)}]

AdvancedInputColumns ==
    {"CORRECTION_VERBATIM", "CUSTOMER_VERBATIM", "GLOBAL_LABOR_CODE_DESCRIPTION",
     "REPAIR_AGE", "KM", "TOTALCOST", "LBRCOST"}

\* The tables extract_advanced_tags is run on: one rich row, NumRows plain
\* rows, or one row of a table that has the text columns only.
AdvancedTables ==
    {[c \in AdvancedInputColumns |-> <<row[c]>>] : row \in RichRows}
        \cup {[c \in AdvancedInputColumns |-> [i \in 1..NumRows |-> rows[i][c]]] :
                rows \in [1..NumRows -> PlainRows]}
        \cup {[c \in {"CORRECTION_VERBATIM", "CUSTOMER_VERBATIM"} |-> <<row[c]>>] :
                row \in RichRows}

\* An LLMTagger holds a table; extract_advanced_tags is about to run.
AdvancedInit ==
    /\ tagger_df_clean \in AdvancedTables
    /\ adv_idx = 1
    /\ adv_pc = "start"
    /\ llm_cache = <<>>
    /\ api_calls = <<>>
    /\ tag_cols = <<>>
    /\ cache_hits = {}
    /\ et_pc = "idle"
    /\ df_task = <<>>
    /\ idx = 1
    /\ llm_results = <<>>
    /\ tpc = "idle"
    /\ low_confidence_rows = {}
    /\ strict_strings = FALSE
    /\ df_raw = <<>>
    /\ column_profiles = <<>>
    /\ df_clean = <<>>
    /\ insights = <<>>
    /\ cl_pass = 0
    /\ cl_pc = "idle"

\* Lines 177-181.
BeginAdvancedTags ==
    /\ adv_pc = "start"
    /\ tagger_df_clean' = WithAdvancedColumns(tagger_df_clean, RowCount(tagger_df_clean))
    /\ adv_idx' = 1
    /\ adv_pc' = "loop"
    /\ UNCHANGED <<llm_cache, api_calls, tag_cols, cache_hits, et_pc>>

\* One iteration of the loop of lines 183-297; an exception leaves the method.
AdvancedTagRow ==
    /\ adv_pc = "loop"
    /\ adv_idx <= RowCount(tagger_df_clean)
    /\ LET r == AdvancedRow(tagger_df_clean, adv_idx)
       IN  /\ tagger_df_clean' = r.table
           /\ adv_pc' = IF r.raised THEN "raised" ELSE "loop"
           /\ adv_idx' = IF r.raised THEN adv_idx ELSE adv_idx + 1
    /\ UNCHANGED <<llm_cache, api_calls, tag_cols, cache_hits, et_pc>>

\* Lines 299-300.
FinishAdvancedTags ==
    /\ adv_pc = "loop"
    /\ adv_idx > RowCount(tagger_df_clean)
    /\ adv_pc' = "done"
    /\ UNCHANGED <<tagger_df_clean, adv_idx, llm_cache, api_calls, tag_cols,
                   cache_hits, et_pc>>

-----------------------------------------------------------------------------
(* llm_tagger.py: the run of __main__ after clean_data *)

\* The loop of extract_advanced_tags from row i on: [raised, table].
RECURSIVE AdvancedLoop(_, _)
AdvancedLoop(table, i) ==
    IF i > RowCount(table) THEN [raised |-> FALSE, table |-> table]
    ELSE LET r == AdvancedRow(table, i)
         IN  IF r.raised THEN r ELSE AdvancedLoop(r.table, i + 1)

\* The cells of the columns of a profiled table, and back with the dtypes it
\* had; a column the tagger added holds strings.
CellsOf(df) == [c \in DOMAIN df |-> df[c].cells]

WithCells(df, table) ==
    [c \in DOMAIN table |->
        [dtype |-> IF c \in DOMAIN df THEN df[c].dtype ELSE "object",
         cells |-> table[c]]]

\* LLMTagger(df_cleaned).extract_tags(), lines 313-314, after the one call of
\* clean_data that __main__ makes.  LLMTagger.__init__
\* keeps the table it is given, not a copy: self.df_clean is the table
\* clean_data returned.  The loaded tables have neither CORRECTION_VERBATIM
\* nor CUSTOMER_VERBATIM, so every row takes lines 79-83 and no request is
\* made; lines 167-169 assign the three columns.
PipelineExtractTags ==
    /\ cl_pc = "cleaned"
    /\ cl_pass = 1
    /\ df_clean' =
        With(df_clean,
            [c \in {"ISSUES", "COMPONENTS", "ACTIONS"} |->
                [dtype |-> "object",
                 cells |-> [i \in 1..RowCount(CellsOf(df_clean)) |-> Str("")]]])
    /\ cl_pc' = "tagged"
    /\ UNCHANGED <<strict_strings, df_raw, column_profiles, insights, cl_pass>>

\* tagger.extract_advanced_tags(), line 315, on the same table.
PipelineAdvancedTags ==
    /\ cl_pc = "tagged"
    /\ LET n == RowCount(CellsOf(df_clean))
           r == AdvancedLoop(WithAdvancedColumns(CellsOf(df_clean), n), 1)
       IN  /\ df_clean' = WithCells(df_clean, r.table)
           /\ cl_pc' = IF r.raised THEN "raised" ELSE "advanced"
    /\ UNCHANGED <<strict_strings, df_raw, column_profiles, insights, cl_pass>>

-----------------------------------------------------------------------------
(* Specifications *)

\* The script of axion_ray_task_1.py alone.
TaggerNext ==
    \/ ProcessRowStep /\ UNCHANGED <<llm_vars, clean_vars, adv_vars>>
    \/ SaveCsv /\ UNCHANGED <<llm_vars, clean_vars, adv_vars>>
    \/ Report /\ UNCHANGED <<llm_vars, clean_vars, adv_vars>>

SpecTagger == TaggerInit /\ [][TaggerNext]_vars

\* LLMTagger.extract_tags alone.
LLMNext ==
    \/ SkipEmptyRow /\ UNCHANGED <<tagger_vars, clean_vars, adv_vars>>
    \/ TagRowFromCache /\ UNCHANGED <<tagger_vars, clean_vars, adv_vars>>
    \/ TagRowFromService /\ UNCHANGED <<tagger_vars, clean_vars, adv_vars>>
    \/ AssignTagColumns /\ UNCHANGED <<tagger_vars, clean_vars, adv_vars>>

SpecLLM == LLMInit /\ [][LLMNext]_vars

\* The profiler, the cleaner and the tagger of __main__ on one loaded table.
CleanNext ==
    \/ ProfileColumns /\ UNCHANGED <<tagger_vars, llm_vars, adv_vars>>
    \/ NewCleaner /\ UNCHANGED <<tagger_vars, llm_vars, adv_vars>>
    \/ CleanData /\ UNCHANGED <<tagger_vars, llm_vars, adv_vars>>
    \/ PipelineExtractTags /\ UNCHANGED <<tagger_vars, llm_vars, adv_vars>>
    \/ PipelineAdvancedTags /\ UNCHANGED <<tagger_vars, llm_vars, adv_vars>>

SpecClean == CleanInit /\ [][CleanNext]_vars

\* extract_advanced_tags on one table.
AdvancedNext ==
    \/ BeginAdvancedTags /\ UNCHANGED <<tagger_vars, clean_vars>>
    \/ AdvancedTagRow /\ UNCHANGED <<tagger_vars, clean_vars>>
    \/ FinishAdvancedTags /\ UNCHANGED <<tagger_vars, clean_vars>>

SpecAdvanced == AdvancedInit /\ [][AdvancedNext]_vars

-----------------------------------------------------------------------------
(* Properties of the taxonomy-driven tagger *)

\* The rows the loop has written labels to.
WrittenRows == DOMAIN llm_results

\* The rows the loop has finished: labels and Confidence written.
FinishedRows == 1..(idx - 1)

AllowedLabels(col) == taxonomy[AxisOfColumn(col)] \cup {NotMentioned, ""}

\* C1: whatever the service returned, every label the loop has written to an
\* axis column of a row is a string of that column's taxonomy axis, or
\* "Not Mentioned", or "".
C1_LabelsInTaxonomy ==
    \A i \in WrittenRows : \A col \in LabelColumns :
        /\ df_task[i][col].t = "str"
        /\ df_task[i][col].v \in AllowedLabels(col)

\* C1 witness: the service returned an object whose Symptom Component list
\* holds four items, one of them the inexact "Steering Wheel", and the row
\* was written with "Not Mentioned" in its place.
C1_Witness ==
    \E i \in WrittenRows :
        /\ llm_results[i].kind = "parsed"
        /\ llm_results[i].value.t = "obj"
        /\ llm_results[i].value.v.symptom_component.t = "list"
        /\ Len(llm_results[i].value.v.symptom_component.v) = 4
        /\ llm_results[i].value.v.symptom_component.v[2] = JStr("Steering Wheel")
        /\ llm_results[i].value.v.symptom_component.v[1] =
                JStr("Steering wheel (main component)")
        /\ llm_results[i].value.v.confidence.t = "num"
        /\ df_task[i]["Symptom Component 1"] = JStr("Steering wheel (main component)")
        /\ df_task[i]["Symptom Component 2"] = JStr(NotMentioned)

\* C4 (as claimed): no service outcome aborts the run of the taxonomy-driven
\* tagger: the script never ends in an uncaught exception.
C4_RunNeverAborts == tpc # "crashed"

\* The outcomes the code turns into the default result inside call_llm_api.
IsServiceFailure(outcome) == outcome.kind \in FailureKinds

\* A parsed JSON object that lacks one of its six fields.
MissesField(outcome) ==
    /\ outcome.kind = "parsed"
    /\ outcome.value.t = "obj"
    /\ \E k \in DOMAIN outcome.value.v : outcome.value.v[k] = Absent

\* The row the loop writes for the default result.
IsDefaultRow(row) ==
    /\ \A col \in LabelColumns : row[col] = JStr(NotMentioned)
    /\ row["Confidence"] = JNum(0, 1)

C9_ConfidenceInUnitInterval ==
    \A i \in DOMAIN df_task :
        /\ df_task[i]["Confidence"].t = "num"
        /\ 0 <= df_task[i]["Confidence"].v[1]
        /\ df_task[i]["Confidence"].v[1] <= df_task[i]["Confidence"].v[2]

-----------------------------------------------------------------------------
(* Properties of LLMTagger.extract_tags *)

\* What a tag column may hold if only taxonomy labels reach it: nothing, or
\* one or two labels of its axis joined by ", ".
TaxonomyJoins(key) ==
    {JoinStrings([n \in DOMAIN s |-> JStr(s[n])]) :
        s \in SeqsUpTo(llm_taxonomy[key], 2)}

\* C2 (as claimed): every cell of ISSUES, COMPONENTS and ACTIONS holds only
\* labels of the embedded taxonomy, whether its result came from the service
\* or from the cache.
C2_OnlyTaxonomyLabelsInTagColumns ==
    et_pc = "done" =>
        \A n \in 1..Len(TagKeys) : \A i \in 1..NumRows :
            tagger_df_clean[TagColumn(TagKeys[n])][i] \in TaxonomyJoins(TagKeys[n])

\* C3: the service receives at most one request for a prompt, and a later row
\* with the same prompt is served from the cache with the tags of the first,
\* whether the first request failed or not.
C3_OneCallPerPrompt ==
    /\ \A p \in DOMAIN api_calls : api_calls[p] = 1
    /\ \A i, j \in 1..Len(tag_cols["issues"]) :
        (i < j /\ RowPrompt(i) # "" /\ RowPrompt(i) = RowPrompt(j)) =>
            /\ j \in cache_hits
            /\ \A k \in DOMAIN tag_cols : tag_cols[k][j] = tag_cols[k][i]

\* C3 witness: two records whose texts differ only in surrounding blanks give
\* one prompt; the request for the first failed, its empty result was stored
\* and the second record was served from the cache.
C3_Witness ==
    /\ Len(tag_cols["issues"]) >= 2
    /\ tagger_df_clean["CUSTOMER_VERBATIM"][1] = " wheel clicks "
    /\ tagger_df_clean["CUSTOMER_VERBATIM"][2] = "wheel clicks"
    /\ RowPrompt(1) = RowPrompt(2)
    /\ llm_cache[_generate_llm_cache_key(RowPrompt(1))] = empty_result
    /\ api_calls[RowPrompt(1)] = 1
    /\ 2 \in cache_hits

\* The responses validate_llm_output is given as a dict.
IsObject(outcome) == outcome.kind = "parsed" /\ outcome.value.t = "obj"

\* An item validate_llm_output keeps in a list of `axis`.
KeptItem(item, axis) ==
    InTaxonomy(item, axis) \/ item = JStr(NotMentioned) \/ item = JStr("")

\* The elements of one list field of a response that are replaced.
ReplacedIn(obj, n) ==
    LET value == obj[list_fields[n].field_key]
    IN  IF value.t # "list" THEN 0
        ELSE Cardinality({k \in DOMAIN value.v :
                            ~KeptItem(value.v[k], list_fields[n].taxonomy_key)})

ReplacedElements(obj) ==
    ReplacedIn(obj, 1) + ReplacedIn(obj, 2) + ReplacedIn(obj, 3) + ReplacedIn(obj, 4)

\* The root cause of a response is replaced: it is neither a Root Cause label
\* nor "Not Mentioned" (a missing one reads None).
RootReplaced(obj) ==
    obj.root_cause = Absent
        \/ (~InTaxonomy(obj.root_cause, "Root Cause") /\ obj.root_cause # JStr(NotMentioned))

RECURSIVE TimesNineTenths(_, _)
TimesNineTenths(conf, n) ==
    IF n = 0 THEN conf ELSE TimesNineTenths(Times(conf, 9, 10), n - 1)

\* C15: the confidence validate_llm_output returns is the service's, times
\* 0.8 if the root cause was replaced and times 0.9 for each replaced list
\* element; with nothing replaced it is the service's confidence.
C15_ConfidencePenaltiesCompound ==
    \A i \in WrittenRows :
        (IsObject(llm_results[i]) /\ llm_results[i].value.v.confidence.t = "num") =>
            LET obj == llm_results[i].value.v
                r == validate_llm_output(llm_results[i].value)
                scaled == IF RootReplaced(obj) THEN Times(obj.confidence, 8, 10)
                          ELSE obj.confidence
            IN  /\ ~r.raised
                /\ r.value.confidence = TimesNineTenths(scaled, ReplacedElements(obj))

\* A response at confidence 0.95 whose root cause is replaced and whose
\* Symptom Component list holds two inexact labels: 0.95 * 0.8 * 0.9 * 0.9.
C15_Witness ==
    \E i \in WrittenRows :
        /\ IsObject(llm_results[i])
        /\ llm_results[i].value.v.confidence = JNum(19, 20)
        /\ RootReplaced(llm_results[i].value.v)
        /\ ReplacedIn(llm_results[i].value.v, 2) = 2
        /\ ReplacedElements(llm_results[i].value.v) = 2
        /\ validate_llm_output(llm_results[i].value).value.confidence =
                Times(Times(Times(JNum(19, 20), 8, 10), 9, 10), 9, 10)

\* The first three elements of a list, each kept or replaced, then "".
FirstThree(items, axis) ==
    [k \in 1..3 |->
        IF k > Len(items) THEN JStr("")
        ELSE IF KeptItem(items[k], axis) THEN items[k]
        ELSE JStr(NotMentioned)]

\* The list the claim describes for a field; a missing field or a value that
\* is not a list has no elements.
ListAsClaimed(value, axis) ==
    JList(FirstThree(IF value.t = "list" THEN value.v ELSE <<>>, axis))

\* The responses on which validate_llm_output returns.
Returns(outcome) == IsObject(outcome) /\ ~validate_llm_output(outcome.value).raised

\* C16 as stated: for every response and every multi-label axis the returned
\* list is the first 3 elements of the service's list, each kept if valid
\* and "Not Mentioned" otherwise, padded at the end with "" to 3 entries.
C16_FirstThreePaddedForEveryResponse ==
    \A i \in WrittenRows :
        Returns(llm_results[i]) =>
            \A n \in DOMAIN list_fields :
                validate_llm_output(llm_results[i].value).value[list_fields[n].field_key]
                    = ListAsClaimed(llm_results[i].value.v[list_fields[n].field_key],
                                    list_fields[n].taxonomy_key)

\* C16: the returned list has exactly 3 entries; for a field the service
\* gave as a list they are its first 3 elements in order, each kept if valid
\* and "Not Mentioned" otherwise, padded at the end with ""; for a field that
\* is missing or not a list they are "Not Mentioned", "", "".
C16_ThreeEntriesPerAxis ==
    \A i \in WrittenRows :
        Returns(llm_results[i]) =>
            \A n \in DOMAIN list_fields :
                LET given == llm_results[i].value.v[list_fields[n].field_key]
                    got == validate_llm_output(llm_results[i].value)
                                .value[list_fields[n].field_key]
                IN  /\ got.t = "list"
                    /\ Len(got.v) = 3
                    /\ got = IF given.t = "list"
                             THEN JList(FirstThree(given.v, list_fields[n].taxonomy_key))
                             ELSE JList(<<JStr(NotMentioned), JStr(""), JStr("")>>)

\* A response whose Symptom Condition list has four elements, an inexact
\* label second among them, came back as a list of three.
C16_Witness ==
    \E i \in WrittenRows :
        /\ Returns(llm_results[i])
        /\ llm_results[i].value.v.symptom_condition.t = "list"
        /\ Len(llm_results[i].value.v.symptom_condition.v) = 4
        /\ ~KeptItem(llm_results[i].value.v.symptom_condition.v[2], "Symptom Condition")
        /\ Len(validate_llm_output(llm_results[i].value).value.symptom_condition.v) = 3

-----------------------------------------------------------------------------
(* Properties of the profiler and the cleaner *)

\* clean_data has returned from its first call.
CleanedOnce == cl_pc = "cleaned" /\ cl_pass = 1

TypedColumns ==
    {col \in DOMAIN column_profiles : "column_type" \in DOMAIN column_profiles[col]}

\* C6: after clean_data, every column whose profile has missing_count > 0
\* and a column_type of numerical, categorical, text or date holds no
\* missing value.
C6_ImputationIsTotal ==
    CleanedOnce =>
        \A col \in TypedColumns :
            column_profiles[col]["missing_count"] > 0 =>
                MissingCount(df_clean[col].cells) = 0

\* C7: a second clean_data on an already-cleaned table without missing
\* values, with the same profiles, appends no insight and leaves the table
\* as it was.
C7_SecondCleanChangesNothing ==
    [][(/\ CleanedOnce
        /\ \A col \in DOMAIN df_clean : MissingCount(df_clean[col].cells) = 0
        /\ cl_pass' = cl_pass + 1)
            => (df_clean' = df_clean /\ insights' = insights)]_vars

\* The IQR rule on the values a column holds after cleaning.
IsOutlierNow(col, i) == OutlierMask(df_clean[col].cells)[i]

IsFlagged(col, i) ==
    /\ (col \o "_OUTLIER") \in DOMAIN df_clean
    /\ df_clean[col \o "_OUTLIER"].cells[i] = Bool(TRUE)

\* C8: for every numerical column, after clean_data a row is true in
\* <col>_OUTLIER iff its post-imputation value lies below Q1 - 1.5*IQR or
\* above Q3 + 1.5*IQR of the post-imputation column.
C8_FlaggedIffOutsideIqrBounds ==
    CleanedOnce =>
        \A col \in TypedColumns :
            column_profiles[col]["column_type"] = "numerical" =>
                \A i \in DOMAIN df_clean[col].cells :
                    IsFlagged(col, i) <=> IsOutlierNow(col, i)

\* C10: every column's profile carries the primary-key flag, true iff
\* unique_count equals the row count and missing_count is 0.
C10_PrimaryKeyFlagOnEveryProfile ==
    \A col \in DOMAIN column_profiles :
        /\ "potential_primary_key" \in DOMAIN column_profiles[col]
        /\ column_profiles[col]["potential_primary_key"] =
                (/\ column_profiles[col]["unique_count"] = Len(df_raw[col].cells)
                 /\ column_profiles[col]["missing_count"] = 0)

-----------------------------------------------------------------------------
(* Properties of extract_advanced_tags *)

\* The rows whose five labels have been written.
LabelledRows == IF adv_pc \in {"loop", "done", "raised"} THEN 1..(adv_idx - 1) ELSE {}

RowKeywords(i) ==
    KeywordsIn(TextOf(RowGet(tagger_df_clean, i, "CORRECTION_VERBATIM", Str(""))))
        \cup KeywordsIn(TextOf(RowGet(tagger_df_clean, i, "CUSTOMER_VERBATIM", Str(""))))
        \cup KeywordsIn(TextOf(RowGet(tagger_df_clean, i,
                                      "GLOBAL_LABOR_CODE_DESCRIPTION", Str(""))))

RowAge(i) == RowGet(tagger_df_clean, i, "REPAIR_AGE", Number(0))

RowKm(i) == CoerceIfStr(RowGet(tagger_df_clean, i, "KM", Number(0))).value

LabelAt(i, col) == tagger_df_clean[col][i].v

MentionsSafety(i) == "safety" \in RowKeywords(i) \/ "airbag" \in RowKeywords(i)

IsEarly(i) ==
    RowKm(i) # Number(0) /\ Below(RowKm(i), 20000) /\ Below(RowAge(i), 6)

C12_EveryRowLabelledWithoutRaising ==
    /\ adv_pc # "raised"
    /\ adv_pc = "done" =>
            \A i \in 1..RowCount(tagger_df_clean) :
                \A k \in DOMAIN AdvancedColumns :
                    LabelAt(i, AdvancedColumns[k]) # ""

\* The type the priority order gives a column: numerical, else date, else
\* text, else categorical for a column of strings, "none" otherwise.
TypeByPriority(col) ==
    IF is_numeric_dtype(col) \/ (col.dtype = "object" /\ CoercesToNumeric(col.cells))
    THEN "numerical"
    ELSE IF col.dtype = "datetime64[ns]" \/ (col.dtype = "object" /\ ParsesAsDates(col.cells))
    THEN "date"
    ELSE IF col.dtype = "object" /\ MeanLenAbove20(col.cells) THEN "text"
    ELSE IF col.dtype = "object" THEN "categorical"
    ELSE "none"

\* C14: profile_columns gives each column the first type of the order
\* numerical, date, text, categorical whose test it meets, and no type to a
\* column that meets none.
C14_TypeByPriorityOrder ==
    \A col \in DOMAIN column_profiles :
        LET expected == TypeByPriority(df_raw[col])
            profile == column_profiles[col]
        IN  IF expected = "none" THEN "column_type" \notin DOMAIN profile
            ELSE /\ "column_type" \in DOMAIN profile
                 /\ profile["column_type"] = expected

\* The date columns whose profile counts missing values.
DateColumnsWithMissing ==
    {col \in TypedColumns :
        /\ column_profiles[col]["column_type"] = "date"
        /\ column_profiles[col]["missing_count"] > 0}

\* C17: for a date column with missing_count > 0, <col>_MISSING is true in
\* exactly the rows that were missing in the raw table, and the column holds
\* the median date of the raw column in those rows.
C17_MissingFlagTakenBeforeFill ==
    CleanedOnce =>
        \A col \in DateColumnsWithMissing :
            /\ (col \o "_MISSING") \in DOMAIN df_clean
            /\ \A i \in DOMAIN df_raw[col].cells :
                /\ df_clean[col \o "_MISSING"].cells[i] = Bool(IsNa(df_raw[col].cells[i]))
                /\ IsNa(df_raw[col].cells[i]) =>
                        df_clean[col].cells[i] =
                            Median(ToDatetimeCells(df_raw[col].cells), "ts")

\* A cleaned date column with a missing row flagged true and holding a date,
\* and another row flagged false.
C17_Witness ==
    /\ CleanedOnce
    /\ \E col \in DateColumnsWithMissing :
        \E i, j \in DOMAIN df_raw[col].cells :
            /\ IsNa(df_raw[col].cells[i])
            /\ ~IsNa(df_raw[col].cells[j])
            /\ df_clean[col \o "_MISSING"].cells[i] = Bool(TRUE)
            /\ df_clean[col \o "_MISSING"].cells[j] = Bool(FALSE)
            /\ df_clean[col].cells[i].t = "ts"

UntypedColumns == DOMAIN column_profiles \ TypedColumns

InsightsAbout(col) == {k \in DOMAIN insights : insights[k].col = col}

\* C18: for a column whose profile has no column_type, clean_data appends
\* one insight, the skip notice, adds no <col>_MISSING or <col>_OUTLIER
\* column, and leaves the column as it is in the raw table.
C18_UntypedColumnsPassThrough ==
    CleanedOnce =>
        \A col \in UntypedColumns :
            /\ Cardinality(InsightsAbout(col)) = 1
            /\ \A k \in InsightsAbout(col) : insights[k].kind = "skipping"
            /\ df_clean[col] = df_raw[col]
            /\ (col \o "_MISSING") \notin DOMAIN df_clean
            /\ (col \o "_OUTLIER") \notin DOMAIN df_clean

\* A cleaned table whose untyped column has a missing value, next to a typed
\* column that was imputed.
C18_Witness ==
    /\ CleanedOnce
    /\ \E col \in UntypedColumns :
        /\ MissingCount(df_raw[col].cells) > 0
        /\ InsightsAbout(col) # {}
    /\ \E other \in TypedColumns :
        /\ MissingCount(df_raw[other].cells) > 0
        /\ MissingCount(df_clean[other].cells) = 0

-----------------------------------------------------------------------------
(* Properties of the run of __main__ *)

\* C13: once clean_data has returned, extract_tags and extract_advanced_tags
\* leave the cleaned table's columns and values as they were.
C13_TaggingLeavesCleanedTable ==
    [][(cl_pc \in {"cleaned", "tagged"} /\ cl_pc' \in {"tagged", "advanced"})
            => df_clean' = df_clean]_vars

====
